---- MODULE Spec2Model ----
(***************************************************************************)
(* goose-js: the migration engine (core/migrate), the ledger table         *)
(* (db/init) and the goose-style SQL parser (utils/sql_parser).            *)
(*                                                                         *)
(* Versions are kept as the code keeps them: a migration's version is the  *)
(* digit string of its filename prefix, a ledger row's version_id is a     *)
(* bigint column that the driver hands back as a decimal string.           *)
(***************************************************************************)
EXTENDS Integers, Sequences, FiniteSets, TLC

\* ------------------------------------------------------------------ bounds

\* Most files the migrations directory holds at once.
MaxFiles == 2

\* Most lines of a SQL text handed to the parser on its own.
MaxLines == 5

\* ----------------------------------------------------- digit strings, BigInt

\* BigInt(s) of a digit string s (a sequence of decimal digits).
RECURSIVE BigInt(_)
BigInt(s) ==
  IF s = <<>> THEN 0 ELSE 10 * BigInt(SubSeq(s, 1, Len(s) - 1)) + s[Len(s)]

\* The decimal string the driver returns for a non-negative bigint column.
RECURSIVE DecimalString(_)
DecimalString(n) ==
  IF n < 10 THEN <<n>> ELSE DecimalString(n \div 10) \o <<n % 10>>

\* -------------------------------------------------------------- SQL parser

UpMarker == "-- +goose Up"
DownMarker == "-- +goose Down"
BeginMarker == "-- +goose StatementBegin"
EndMarker == "-- +goose StatementEnd"
NoTxDirective == "-- +goose NO TRANSACTION"
IrreversibleDirective == "-- +goose IRREVERSIBLE"

\* The raw lines the texts of the model are made of.
CommentLines ==
  {UpMarker, DownMarker, BeginMarker, EndMarker, NoTxDirective,
   IrreversibleDirective, "-- note"}
TerminatedLines == {"SELECT 1;", "SELECT 2;"}
OpenLines == {"SELECT 3", "SELECT 1; -- +goose NO TRANSACTION"}
PaddedLines ==
  {"  -- +goose Up  ", "  SELECT 1;  ", "  -- +goose IRREVERSIBLE  "}

\* The line taken as it stands, not trimmed.
Untrimmed(line) == line

\* line.trim()
Trim(line) ==
  CASE line = "  -- +goose Up  " -> UpMarker
    [] line = "  SELECT 1;  " -> "SELECT 1;"
    [] line = "  -- +goose IRREVERSIBLE  " -> IrreversibleDirective
    [] OTHER -> line

\* trimmedLine.startsWith("--")
StartsWithDashes(t) == t \in CommentLines

\* trimmedLine.endsWith(";")
EndsWithSemicolon(t) == t \in TerminatedLines

\* line.includes(directive): the text of the directive is part of the line.
LineIncludes(line, directive) ==
  \/ line = directive
  \/ directive = NoTxDirective /\ line = "SELECT 1; -- +goose NO TRANSACTION"
  \/ directive = IrreversibleDirective /\ line = "  -- +goose IRREVERSIBLE  "

\* The directive is looked for in the lines above the first section marker
\* only.
IncludesAtTop(sql, directive) ==
  \E i \in 1..Len(sql) :
    /\ LineIncludes(sql[i], directive)
    /\ \A j \in 1..(i - 1) : Trim(sql[j]) \notin {UpMarker, DownMarker}

\* sql.includes(directive): a directive has no line break in it, so it is
\* part of the text when it is part of one of its lines.
Includes(sql, directive) ==
  \E i \in 1..Len(sql) : LineIncludes(sql[i], directive)

\* The variables before the loop had the parser started in the up section.
ParserStartInUp ==
  [section |-> "up", inStatement |-> FALSE, currentStatement |-> <<>>,
   upStatements |-> <<>>, downStatements |-> <<>>]

ParserStart ==
  [section |-> "none", inStatement |-> FALSE, currentStatement |-> <<>>,
   upStatements |-> <<>>, downStatements |-> <<>>]

\* One turn of the loop over the lines. A statement is the sequence of its
\* raw lines, each of which the code follows with "\n".
ParseLine(st, line) ==
  LET t == Trim(line) IN
  IF t = UpMarker THEN [st EXCEPT !.section = "up"]
  ELSE IF t = DownMarker THEN [st EXCEPT !.section = "down"]
  ELSE IF ~st.inStatement /\ (t = "" \/ StartsWithDashes(t)) THEN st
  ELSE IF t = BeginMarker
    THEN [st EXCEPT !.inStatement = TRUE, !.currentStatement = <<>>]
  ELSE IF t = EndMarker
    THEN LET s == [st EXCEPT !.inStatement = FALSE] IN
         IF st.section = "up"
           THEN [s EXCEPT !.upStatements = Append(@, st.currentStatement)]
         ELSE IF st.section = "down"
           THEN [s EXCEPT !.downStatements = Append(@, st.currentStatement)]
         ELSE s
  ELSE IF st.inStatement
    THEN [st EXCEPT !.currentStatement = Append(@, line)]
  ELSE IF st.section # "none" /\ t # "" /\ ~StartsWithDashes(t)
    THEN LET cur == Append(st.currentStatement, line) IN
         IF EndsWithSemicolon(t)
           THEN IF st.section = "up"
                  THEN [st EXCEPT !.upStatements = Append(@, cur),
                                  !.currentStatement = <<>>]
                  ELSE [st EXCEPT !.downStatements = Append(@, cur),
                                  !.currentStatement = <<>>]
           ELSE [st EXCEPT !.currentStatement = cur]
  ELSE st

RECURSIVE ParseLines(_, _)
ParseLines(st, lines) ==
  IF lines = <<>> THEN st ELSE ParseLines(ParseLine(st, Head(lines)), Tail(lines))

\* The object returned had the parser emitted what is left in the
\* accumulator at the end of the input as a last statement of the section.
ParseResultWithRest(st, sql) ==
  LET rest == IF st.currentStatement = <<>> THEN <<>>
              ELSE <<st.currentStatement>>
      ups == IF st.section = "up" THEN st.upStatements \o rest
             ELSE st.upStatements
      downs == IF st.section = "down" THEN st.downStatements \o rest
               ELSE st.downStatements
  IN [error |-> "none",
      upStatements |-> ups,
      downStatements |-> downs,
      down |-> Len(downs) > 0,
      noTransaction |-> Includes(sql, NoTxDirective),
      irreversible |-> Includes(sql, IrreversibleDirective)]

\* The object parseSqlMigration returns once the loop has ended in state st.
\* error is "none": the function has no throw.
ParseResult(st, sql) ==
  [error |-> "none",
   upStatements |-> st.upStatements,
   downStatements |-> st.downStatements,
   down |-> Len(st.downStatements) > 0,
   noTransaction |-> Includes(sql, NoTxDirective),
   irreversible |-> Includes(sql, IrreversibleDirective)]

\* parseSqlMigration(sql), sql given as its lines (sql.split(/\r?\n/)).
parseSqlMigration(sql) == ParseResult(ParseLines(ParserStart, sql), sql)

\* ------------------------------------------------------ migration directory

\* The files a developer may put into the migrations directory, by filename.
\* A .sql file has its text, a .js file the types of what it exports
\* ("function", "boolean:true", "boolean:false", "undefined", or "string" for
\* anything else).
NoExports == [up |-> "undefined", down |-> "undefined",
              noTransaction |-> "undefined", irreversible |-> "undefined"]

SqlFile(prefix, content) ==
  [prefix |-> prefix, ext |-> "sql", content |-> content, exports |-> NoExports]

JsFile(prefix, exports) ==
  [prefix |-> prefix, ext |-> "js", content |-> <<>>, exports |-> exports]

Universe ==
  {"1_a.sql", "1_b.js", "01_c.sql", "2_a.sql", "2_b.js", "3_a.sql", "3_b.js",
   "0_z.js"}

File(filename) ==
  CASE filename = "1_a.sql" ->
         SqlFile(<<1>>, <<UpMarker, "SELECT 1;", DownMarker, "SELECT 2;">>)
    [] filename = "1_b.js" ->
         JsFile(<<1>>, [up |-> "function", down |-> "function",
                        noTransaction |-> "boolean:true",
                        irreversible |-> "undefined"])
    [] filename = "01_c.sql" ->
         SqlFile(<<0, 1>>, <<UpMarker, "SELECT 1;">>)
    [] filename = "2_a.sql" ->
         SqlFile(<<2>>, <<IrreversibleDirective, UpMarker, "SELECT 1;",
                          DownMarker, "SELECT 2;">>)
    [] filename = "2_b.js" ->
         JsFile(<<2>>, [up |-> "function", down |-> "undefined",
                        noTransaction |-> "boolean:false",
                        irreversible |-> "boolean:false"])
    [] filename = "3_a.sql" ->
         SqlFile(<<3>>, <<NoTxDirective, UpMarker, "SELECT 1;">>)
    [] filename = "3_b.js" ->
         JsFile(<<3>>, [up |-> "undefined", down |-> "function",
                        noTransaction |-> "undefined",
                        irreversible |-> "undefined"])
    [] filename = "0_z.js" ->
         JsFile(<<0>>, [up |-> "function", down |-> "function",
                        noTransaction |-> "undefined",
                        irreversible |-> "undefined"])

\* The version of the file called filename: the digits before the first "_",
\* as they stand.
getVersionFromFilename(filename) == File(filename).prefix

\* The orders readdir lists files in: an order of the file system's own,
\* which is not the order of the versions, forwards or backwards.
Shelf ==
  <<"3_a.sql", "1_b.js", "0_z.js", "2_b.js", "01_c.sql", "1_a.sql", "2_a.sql",
    "3_b.js">>

RECURSIVE Reverse(_)
Reverse(s) == IF s = <<>> THEN <<>> ELSE Append(Reverse(Tail(s)), Head(s))

Listings(files) ==
  {SelectSeq(Shelf, LAMBDA f : f \in files),
   SelectSeq(Reverse(Shelf), LAMBDA f : f \in files)}

\* ----------------------------------------------------------------- variables

VARIABLES
  dir,          \* the files in the migrations directory
  tableExists,  \* the ledger table has been created
  ledger,       \* version_id of the ledger rows, in ascending id order
  store,        \* per file: what its up action has left in the database
  last,         \* the last command run and what it did
  sql,          \* the text handed to the parser on its own
  parsed,       \* what parseSqlMigration returned for sql, or "unparsed"
  ran           \* the call of the parsed migration's up or down action

vars == <<dir, tableExists, ledger, store, last, sql, parsed, ran>>

\* ------------------------------------------------------------ loading files

\* The filter of the directory listing: a .js or .sql file named <digits>_...
Eligible(filename) ==
  File(filename).ext \in {"js", "sql"} /\ Len(File(filename).prefix) > 0

\* Where a stable sort puts x among the already sorted front: behind every
\* file whose version is not greater.
InsertByVersion(front, x) ==
  LET k == Cardinality({i \in 1..Len(front) :
             BigInt(getVersionFromFilename(front[i]))
               <= BigInt(getVersionFromFilename(x))})
  IN SubSeq(front, 1, k) \o <<x>> \o SubSeq(front, k + 1, Len(front))

\* The listing left as readdir returned it: the sort left out.
KeepListingOrder(files) == files

\* files.sort((a, b) => Number(BigInt(versionA) - BigInt(versionB))): a stable
\* sort, ascending by the number the prefix stands for.
RECURSIVE SortByVersion(_)
SortByVersion(files) ==
  IF files = <<>> THEN <<>>
  ELSE InsertByVersion(SortByVersion(SubSeq(files, 1, Len(files) - 1)),
                       files[Len(files)])

\* The module of one file, or error = TRUE where the loop throws.
SqlModule(m) ==
  [error |-> m.error # "none", down |-> m.down,
   noTransaction |-> m.noTransaction, irreversible |-> m.irreversible]

JsModule(e) ==
  IF \/ e.up # "function"
     \/ e.down \notin {"undefined", "function"}
     \/ e.noTransaction \notin {"undefined", "boolean:true", "boolean:false"}
     \/ e.irreversible \notin {"undefined", "boolean:true", "boolean:false"}
    THEN [error |-> TRUE, down |-> FALSE, noTransaction |-> FALSE,
          irreversible |-> FALSE]
    ELSE [error |-> FALSE, down |-> e.down = "function",
          noTransaction |-> e.noTransaction = "boolean:true",
          irreversible |-> e.irreversible = "boolean:true"]

LoadModule(filename) ==
  IF File(filename).ext = "sql"
    THEN SqlModule(parseSqlMigration(File(filename).content))
    ELSE JsModule(File(filename).exports)

\* The loop that loads each file and pushes it onto migrations.
RECURSIVE LoadFiles(_)
LoadFiles(migrationFiles) ==
  IF migrationFiles = <<>> THEN <<>>
  ELSE <<[version |-> getVersionFromFilename(Head(migrationFiles)),
          filename |-> Head(migrationFiles),
          module |-> LoadModule(Head(migrationFiles))]>>
       \o LoadFiles(Tail(migrationFiles))

\* The loop when a file that fails to load is logged and left out instead of
\* ending the load.
LoadedWithout(migrations) ==
  [error |-> FALSE,
   migrations |-> SelectSeq(migrations, LAMBDA m : ~m.module.error)]

Loaded(migrations) ==
  [error |-> \E i \in 1..Len(migrations) : migrations[i].module.error,
   migrations |-> migrations]

\* getMigrationFiles(dir) when readdir lists the files as listing: the
\* migrations in sorted order, or error = TRUE when a file fails to load.
getMigrationFiles(listing) ==
  Loaded(LoadFiles(SortByVersion(SelectSeq(listing, Eligible))))

\* ------------------------------------------------------------------- ledger

\* initializeDb: the table is created when absent, and only then is the
\* version 0 row looked for and inserted.
initializeDb(exists, rows) ==
  IF ~exists
    THEN LET created == <<>> IN
         IF \A i \in 1..Len(created) : created[i] # 0
           THEN Append(created, 0) ELSE created
    ELSE rows

\* getAppliedMigrations: the rows by ascending id, version_id as the driver
\* returns a bigint.
RECURSIVE AppliedFrom(_, _)
AppliedFrom(rows, id) ==
  IF rows = <<>> THEN <<>>
  ELSE <<[id |-> id, version_id |-> DecimalString(Head(rows))]>>
       \o AppliedFrom(Tail(rows), id + 1)

getAppliedMigrations(rows) == AppliedFrom(rows, 1)

\* insert({version_id: version}): the column is unique; fails is the
\* database refusing the write for a reason of its own.
LedgerInsert(rows, version, fails) ==
  IF fails \/ \E i \in 1..Len(rows) : rows[i] = BigInt(version)
    THEN [ok |-> FALSE, rows |-> rows]
    ELSE [ok |-> TRUE, rows |-> Append(rows, BigInt(version))]

\* where("version_id", version).delete()
LedgerDelete(rows, version, fails) ==
  IF fails
    THEN [ok |-> FALSE, rows |-> rows]
    ELSE [ok |-> TRUE,
          rows |-> SelectSeq(rows, LAMBDA v : v # BigInt(version))]

\* ------------------------------------------------------ apply and roll back

\* What the database refuses in one command: nothing, or one call of one file
\* (its up action, its ledger insert, its down action, its ledger delete).
NoFault == [file |-> "", at |-> "none"]
Faults(files) ==
  {NoFault} \cup
  {[file |-> f, at |-> a] : f \in files, a \in {"up", "insert", "down", "delete"}}
FaultAt(fault, m, what) == fault.at = what /\ fault.file = m.filename

\* The running account of a command: the ledger rows, the store, the up and
\* down actions invoked so far (by filename), the files whose ledger insert
\* and ledger delete stand, the error thrown (or "none") and the file it was
\* thrown at, the ledger versions skipped for want of a file, the
\* irreversible file the walk stopped at (or ""), and the version_id of the
\* rows a rollback has come to, in the order it came to them.
Account(rows, st) ==
  [rows |-> rows, store |-> st, ups |-> <<>>, downs |-> <<>>,
   inserted |-> {}, deleted |-> {}, err |-> "none", failed |-> "",
   skipped |-> <<>>, halt |-> "", walk |-> <<>>]

\* An apply body that records the migration first and runs it afterwards.
ApplyBodyInsertFirst(m, r, fault) ==
  LET r1 == [r EXCEPT !.ups = Append(@, m.filename)]
      ins == LedgerInsert(r.rows, m.version, FaultAt(fault, m, "insert"))
  IN IF ~ins.ok
       THEN [r1 EXCEPT !.err = "insert", !.failed = m.filename]
     ELSE IF FaultAt(fault, m, "up")
       THEN [r1 EXCEPT !.rows = ins.rows, !.inserted = @ \cup {m.filename},
                       !.store[m.filename] = "partial", !.err = "up",
                       !.failed = m.filename]
     ELSE [r1 EXCEPT !.rows = ins.rows, !.inserted = @ \cup {m.filename},
                     !.store[m.filename] = "done"]

\* await migration.module.up(db); await db(table).insert(...)
\* An up action that throws has changed the store in part.
ApplyBody(m, r, fault) ==
  LET r1 == [r EXCEPT !.ups = Append(@, m.filename)] IN
  IF FaultAt(fault, m, "up")
    THEN [r1 EXCEPT !.store[m.filename] = "partial", !.err = "up",
                    !.failed = m.filename]
    ELSE LET r2 == [r1 EXCEPT !.store[m.filename] = "done"]
             ins == LedgerInsert(r.rows, m.version, FaultAt(fault, m, "insert"))
         IN IF ins.ok
              THEN [r2 EXCEPT !.rows = ins.rows,
                              !.inserted = @ \cup {m.filename}]
              ELSE [r2 EXCEPT !.err = "insert", !.failed = m.filename]

\* A rollback body that takes a missing down action for a reason to leave the
\* migration alone: nothing is invoked and the row stays.
RollbackBodyNeedsDown(m, r, fault) ==
  IF ~m.module.down THEN r
  ELSE LET r1 == [r EXCEPT !.downs = Append(@, m.filename)] IN
       IF FaultAt(fault, m, "down")
         THEN [r1 EXCEPT !.store[m.filename] = "partial", !.err = "down",
                         !.failed = m.filename]
         ELSE LET del == LedgerDelete(r.rows, m.version,
                                      FaultAt(fault, m, "delete"))
              IN IF del.ok
                   THEN [r1 EXCEPT !.store[m.filename] = "none",
                                   !.rows = del.rows,
                                   !.deleted = @ \cup {m.filename}]
                   ELSE [r1 EXCEPT !.store[m.filename] = "none",
                                   !.err = "delete", !.failed = m.filename]

\* A rollback body that removes the row first and runs the down action after.
RollbackBodyDeleteFirst(m, r, fault) ==
  LET del == LedgerDelete(r.rows, m.version, FaultAt(fault, m, "delete")) IN
  IF ~del.ok THEN [r EXCEPT !.err = "delete", !.failed = m.filename]
  ELSE LET r1 == [r EXCEPT !.rows = del.rows,
                           !.deleted = @ \cup {m.filename}]
       IN IF ~m.module.down THEN r1
          ELSE IF FaultAt(fault, m, "down")
            THEN [r1 EXCEPT !.downs = Append(@, m.filename),
                            !.store[m.filename] = "partial", !.err = "down",
                            !.failed = m.filename]
          ELSE [r1 EXCEPT !.downs = Append(@, m.filename),
                          !.store[m.filename] = "none"]

\* if (down !== undefined) await down(db); await db(table).where(...).delete()
RollbackBody(m, r, fault) ==
  LET r1 == IF m.module.down
              THEN [r EXCEPT !.downs = Append(@, m.filename)] ELSE r
  IN
  IF m.module.down /\ FaultAt(fault, m, "down")
    THEN [r1 EXCEPT !.store[m.filename] = "partial", !.err = "down",
                    !.failed = m.filename]
    ELSE LET r2 == IF m.module.down
                     THEN [r1 EXCEPT !.store[m.filename] = "none"] ELSE r1
             del == LedgerDelete(r.rows, m.version, FaultAt(fault, m, "delete"))
         IN IF del.ok
              THEN [r2 EXCEPT !.rows = del.rows,
                              !.deleted = @ \cup {m.filename}]
              ELSE [r2 EXCEPT !.err = "delete", !.failed = m.filename]

\* The body run on the plain connection: what it wrote before it threw stays.
Autocommit(before, after) == after

\* db.transaction(async (trx) => ...): what the body wrote through trx is
\* committed when it returns and rolled back when it throws.
Transaction(before, after) ==
  IF after.err = "none" THEN after
  ELSE [after EXCEPT !.rows = before.rows, !.store = before.store,
                     !.inserted = before.inserted, !.deleted = before.deleted]

\* One turn of the loop of applyMigrations.
ApplyOne(m, r, fault) ==
  IF m.module.noTransaction
    THEN ApplyBody(m, r, fault)
    ELSE Transaction(r, ApplyBody(m, r, fault))

\* A loop that catches what a migration throws and goes on with the next.
RECURSIVE applyMigrationsOn(_, _, _)
applyMigrationsOn(migrations, r, fault) ==
  IF migrations = <<>> THEN r
  ELSE applyMigrationsOn(Tail(migrations),
                         ApplyOne(Head(migrations), r, fault), fault)

\* applyMigrations(migrations): in the order given, until one throws.
RECURSIVE applyMigrations(_, _, _)
applyMigrations(migrations, r, fault) ==
  IF migrations = <<>> \/ r.err # "none" THEN r
  ELSE applyMigrations(Tail(migrations), ApplyOne(Head(migrations), r, fault),
                       fault)

\* The pending migrations: those whose version string equals (===) the
\* version_id string of no applied row.
PendingMigrations(migrations, appliedMigrations) ==
  SelectSeq(migrations,
    LAMBDA migration :
      ~\E i \in 1..Len(appliedMigrations) :
          appliedMigrations[i].version_id = migration.version)

\* A version argument of the command line: absent, or an integer.
NoVersion == [given |-> FALSE, v |-> 0]
Version(n) == [given |-> TRUE, v |-> n]

\* The pending migrations whatever the version given: the target ignored.
IgnoreTarget(pending, version) == pending

\* The pending migrations up to the version given, if one is.
UpTo(pending, version) ==
  IF version.given /\ Len(pending) > 0
    THEN SelectSeq(pending, LAMBDA m : BigInt(m.version) <= version.v)
    ELSE pending

\* upMigration(options, version), after its files are loaded.
upMigration(migrations, r, version, fault) ==
  applyMigrations(
    UpTo(PendingMigrations(migrations, getAppliedMigrations(r.rows)), version),
    r, fault)

\* Apply every pending migration, not the first alone.
ApplyAllPending(pendingMigrations, r, fault) ==
  applyMigrations(pendingMigrations, r, fault)

\* Apply only the first pending migration, if there is one.
FirstOf(pendingMigrations, r, fault) ==
  IF Len(pendingMigrations) = 0 THEN r
  ELSE applyMigrations(<<pendingMigrations[1]>>, r, fault)

\* upByOneMigration(options), after its files are loaded.
upByOneMigration(migrations, r, fault) ==
  FirstOf(PendingMigrations(migrations, getAppliedMigrations(r.rows)), r, fault)

\* Where a stable sort puts x among the already sorted front: behind every
\* row whose version is not smaller.
InsertApplied(front, x) ==
  LET k == Cardinality({i \in 1..Len(front) :
             BigInt(front[i].version_id) >= BigInt(x.version_id)})
  IN SubSeq(front, 1, k) \o <<x>> \o SubSeq(front, k + 1, Len(front))

\* [...appliedMigrations].sort((a, b) => Number(BigInt(b.version_id) -
\* BigInt(a.version_id))): a stable sort, descending by version.
RECURSIVE SortAppliedDesc(_)
SortAppliedDesc(applied) ==
  IF applied = <<>> THEN <<>>
  ELSE InsertApplied(SortAppliedDesc(SubSeq(applied, 1, Len(applied) - 1)),
                     applied[Len(applied)])

\* The rows of the sorted applied rows from the given version upwards, the
\* version itself included.
ToRollbackFrom(sortedAppliedMigrations, version) ==
  IF ~version.given
    THEN <<sortedAppliedMigrations[1]>>
    ELSE SelectSeq(sortedAppliedMigrations,
                   LAMBDA m : BigInt(m.version_id) >= version.v)

\* The rows of the sorted applied rows that downToMigration is to walk.
ToRollback(sortedAppliedMigrations, version) ==
  IF ~version.given
    THEN <<sortedAppliedMigrations[1]>>
    ELSE SelectSeq(sortedAppliedMigrations,
                   LAMBDA m : BigInt(m.version_id) > version.v)

\* The applied rows downToMigration is to walk, in the order it walks them.
MigrationsToRollback(appliedMigrations, version) ==
  ToRollback(SortAppliedDesc(appliedMigrations), version)

\* migrations.find((m) => m.version === version_id): the index of the first
\* match, or 0.
FindMigration(migrations, version_id) ==
  LET hits == {i \in 1..Len(migrations) : migrations[i].version = version_id}
  IN IF hits = {} THEN 0 ELSE CHOOSE i \in hits : \A j \in hits : i <= j

\* One turn of the loop of downToMigration for a migration that is found and
\* is not irreversible.
RollbackOne(m, r, fault) ==
  IF m.module.noTransaction
    THEN RollbackBody(m, r, fault)
    ELSE Transaction(r, RollbackBody(m, r, fault))

\* A walk that notes the irreversible migration and goes on to the next row.
RECURSIVE RollbackWalkPast(_, _, _, _)
RollbackWalkPast(toRollback, migrations, r, fault) ==
  IF toRollback = <<>> \/ r.err # "none" THEN r
  ELSE LET applied == Head(toRollback)
           k == FindMigration(migrations, applied.version_id)
       IN IF k = 0
            THEN RollbackWalkPast(Tail(toRollback), migrations,
                   [r EXCEPT !.skipped = Append(@, applied.version_id),
                             !.walk = Append(@, applied.version_id)], fault)
          ELSE IF migrations[k].module.irreversible
            THEN RollbackWalkPast(Tail(toRollback), migrations,
                   [r EXCEPT !.halt = migrations[k].filename,
                             !.walk = Append(@, applied.version_id)], fault)
          ELSE RollbackWalkPast(Tail(toRollback), migrations,
                 RollbackOne(migrations[k],
                   [r EXCEPT !.walk = Append(@, applied.version_id)], fault),
                 fault)

\* A walk that throws when a row has no migration file.
RECURSIVE RollbackWalkStrict(_, _, _, _)
RollbackWalkStrict(toRollback, migrations, r, fault) ==
  IF toRollback = <<>> \/ r.err # "none" THEN r
  ELSE LET applied == Head(toRollback)
           k == FindMigration(migrations, applied.version_id)
       IN IF k = 0
            THEN [r EXCEPT !.err = "missing",
                           !.walk = Append(@, applied.version_id)]
          ELSE IF migrations[k].module.irreversible
            THEN [r EXCEPT !.halt = migrations[k].filename,
                           !.walk = Append(@, applied.version_id)]
          ELSE RollbackWalkStrict(Tail(toRollback), migrations,
                 RollbackOne(migrations[k],
                   [r EXCEPT !.walk = Append(@, applied.version_id)], fault),
                 fault)

\* The loop of downToMigration over the rows to roll back.
RECURSIVE RollbackWalk(_, _, _, _)
RollbackWalk(toRollback, migrations, r, fault) ==
  IF toRollback = <<>> \/ r.err # "none" THEN r
  ELSE LET applied == Head(toRollback)
           k == FindMigration(migrations, applied.version_id)
       IN IF k = 0
            THEN RollbackWalk(Tail(toRollback), migrations,
                   [r EXCEPT !.skipped = Append(@, applied.version_id),
                             !.walk = Append(@, applied.version_id)], fault)
          ELSE IF migrations[k].module.irreversible
            THEN [r EXCEPT !.halt = migrations[k].filename,
                           !.walk = Append(@, applied.version_id)]
          ELSE RollbackWalk(Tail(toRollback), migrations,
                 RollbackOne(migrations[k],
                   [r EXCEPT !.walk = Append(@, applied.version_id)], fault),
                 fault)

\* downToMigration(options, version), given the applied rows it has read.
DownFrom(appliedMigrations, migrations, r, version, fault) ==
  IF Len(appliedMigrations) = 0 THEN r
  ELSE RollbackWalk(MigrationsToRollback(appliedMigrations, version),
                    migrations, r, fault)

\* downToMigration(options, version), after its files are loaded.
downToMigration(migrations, r, version, fault) ==
  DownFrom(getAppliedMigrations(r.rows), migrations, r, version, fault)

\* The lines statusMigration prints, given the applied rows it has read.
StatusLines(migrations, appliedMigrations) ==
  [i \in 1..Len(migrations) |->
     [filename |-> migrations[i].filename,
      status |-> IF \E j \in 1..Len(appliedMigrations) :
                      appliedMigrations[j].version_id = migrations[i].version
                   THEN "Applied" ELSE "Pending"]]

\* statusMigration(options), after its files are loaded.
statusMigration(migrations, rows) ==
  StatusLines(migrations, getAppliedMigrations(rows))

\* ------------------------------------------------------------------ commands

\* The version arguments the commands are given.
TargetVersions == {Version(n) : n \in {-1, 0, 2}}

Nothing ==
  [op |-> "none", version |-> NoVersion, ups |-> <<>>, downs |-> <<>>,
   inserted |-> {}, deleted |-> {}, err |-> "none", failed |-> "",
   out |-> "", skipped |-> <<>>, halt |-> "", walk |-> <<>>,
   status |-> <<>>]

Report(op, version, r, out) ==
  [Nothing EXCEPT !.op = op, !.version = version, !.ups = r.ups,
                  !.downs = r.downs, !.inserted = r.inserted,
                  !.deleted = r.deleted, !.err = r.err, !.failed = r.failed,
                  !.out = out, !.skipped = r.skipped, !.halt = r.halt,
                  !.walk = r.walk]

LoadFailed(op, version) ==
  [Nothing EXCEPT !.op = op, !.version = version, !.err = "load"]

NoStore == [f \in Universe |-> "none"]

\* No action of the parsed migration has been called.
NoRun ==
  [action |-> "none", status |-> "idle", next |-> 1, pending |-> FALSE,
   started |-> <<>>, completed |-> 0]

NoParse ==
  [done |-> FALSE, error |-> "none", upStatements |-> <<>>,
   downStatements |-> <<>>, down |-> FALSE, noTransaction |-> FALSE,
   irreversible |-> FALSE]

Init ==
  /\ dir = {}
  /\ tableExists = FALSE
  /\ ledger = <<>>
  /\ store = NoStore
  /\ last = Nothing
  /\ sql = <<>>
  /\ parsed = NoParse
  /\ ran = NoRun

\* A developer adds a migration file to the directory.
AddFile ==
  /\ Cardinality(dir) < MaxFiles
  /\ \E f \in Universe \ dir : dir' = dir \cup {f}
  /\ last' = Nothing
  /\ UNCHANGED <<tableExists, ledger, store, sql, parsed, ran>>

UpFaults(files) == {x \in Faults(files) : x.at \in {"none", "up", "insert"}}
DownFaults(files) == {x \in Faults(files) : x.at \in {"none", "down", "delete"}}

\* What a command leaves behind: the table exists, and either the load
\* failed (rows are those initializeDb left) or the account r stands.
Outcome(op, version, rows, loaded, r, out) ==
  /\ tableExists' = TRUE
  /\ IF loaded.error
       THEN /\ ledger' = rows
            /\ store' = store
            /\ last' = LoadFailed(op, version)
       ELSE /\ ledger' = r.rows
            /\ store' = r.store
            /\ last' = Report(op, version, r, out)
  /\ UNCHANGED <<dir, sql, parsed, ran>>

NoPending(r) == IF r.ups = <<>> THEN "No pending migrations" ELSE ""

NoRollback(applied, version) ==
  IF Len(applied) = 0 \/ ToRollback(SortAppliedDesc(applied), version) = <<>>
    THEN "No migrations to roll back" ELSE ""

UpRun(version, rows, loaded, r) ==
  Outcome("up", version, rows, loaded, r, NoPending(r))

UpLoaded(rows, loaded) ==
  \E version \in {NoVersion} \cup TargetVersions, fault \in UpFaults(dir) :
    UpRun(version, rows, loaded,
          upMigration(loaded.migrations, Account(rows, store), version, fault))

\* The commands up (version absent) and up-to <version>.
Up ==
  \E listing \in Listings(dir) :
    UpLoaded(initializeDb(tableExists, ledger), getMigrationFiles(listing))

UpByOneRun(rows, loaded, r) ==
  Outcome("up-by-one", NoVersion, rows, loaded, r, NoPending(r))

UpByOneLoaded(rows, loaded) ==
  \E fault \in UpFaults(dir) :
    UpByOneRun(rows, loaded,
      upByOneMigration(loaded.migrations, Account(rows, store), fault))

\* The command up-by-one.
UpByOne ==
  \E listing \in Listings(dir) :
    UpByOneLoaded(initializeDb(tableExists, ledger), getMigrationFiles(listing))

DownRun(version, rows, loaded, r) ==
  Outcome("down", version, rows, loaded, r,
          NoRollback(getAppliedMigrations(rows), version))

DownLoaded(rows, loaded) ==
  \E version \in {NoVersion} \cup TargetVersions, fault \in DownFaults(dir) :
    DownRun(version, rows, loaded,
      downToMigration(loaded.migrations, Account(rows, store), version, fault))

\* The commands down (version absent) and down-to <version>.
Down ==
  \E listing \in Listings(dir) :
    DownLoaded(initializeDb(tableExists, ledger), getMigrationFiles(listing))

StatusLoaded(rows, loaded) ==
  /\ tableExists' = TRUE
  /\ ledger' = rows
  /\ last' = IF loaded.error THEN LoadFailed("status", NoVersion)
             ELSE [Nothing EXCEPT !.op = "status",
                     !.status = statusMigration(loaded.migrations, rows)]
  /\ UNCHANGED <<dir, store, sql, parsed, ran>>

\* The command status.
Status ==
  \E listing \in Listings(dir) :
    StatusLoaded(initializeDb(tableExists, ledger), getMigrationFiles(listing))

Next == AddFile \/ Up \/ UpByOne \/ Down \/ Status

Spec == Init /\ [][Next]_vars

\* --------------------------------------------------- the parser on its own

\* The lines of the texts given to the parser on its own.
TextLines == {UpMarker, DownMarker, BeginMarker, EndMarker,
              "SELECT 1;", "SELECT 2;", ""}

Texts == UNION {[1..n -> TextLines] : n \in 0..MaxLines}

InitParse ==
  /\ dir = {}
  /\ tableExists = FALSE
  /\ ledger = <<>>
  /\ store = NoStore
  /\ last = Nothing
  /\ sql \in Texts
  /\ parsed = NoParse
  /\ ran = NoRun

\* parseSqlMigration is called on the text.
Parse ==
  /\ ~parsed.done
  /\ parsed' = [parseSqlMigration(sql) @@ [done |-> TRUE] EXCEPT !.done = TRUE]
  /\ UNCHANGED <<dir, tableExists, ledger, store, last, sql, ran>>

NextParse == Parse

SpecParse == InitParse /\ [][NextParse]_vars

\* Texts of bare statements: section markers, lines that end a statement,
\* a line that does not, a comment, a blank line and a padded line.
BareLines == {UpMarker, DownMarker, "SELECT 1;", "SELECT 2;", "SELECT 3",
              "-- note", "", "  SELECT 1;  "}

BareTexts == UNION {[1..n -> BareLines] : n \in 0..MaxLines}

InitBare ==
  /\ dir = {}
  /\ tableExists = FALSE
  /\ ledger = <<>>
  /\ store = NoStore
  /\ last = Nothing
  /\ sql \in BareTexts
  /\ parsed = NoParse
  /\ ran = NoRun

SpecBare == InitBare /\ [][NextParse]_vars

\* The up and down actions of the migration the parser returns. ran.started
\* is the statements handed to db.raw so far, ran.completed how many of the
\* calls have resolved, ran.pending that the loop awaits a call, ran.next the
\* place in the list the loop is at.
RunLines == {UpMarker, DownMarker, "SELECT 1;", "SELECT 2;"}

RunTexts == UNION {[1..n -> RunLines] : n \in 0..MaxLines}

InitRun ==
  /\ dir = {}
  /\ tableExists = FALSE
  /\ ledger = <<>>
  /\ store = NoStore
  /\ last = Nothing
  /\ sql \in RunTexts
  /\ parsed = NoParse
  /\ ran = NoRun

\* The list the action called loops over.
StatementsOf(p, action) ==
  IF action = "up" THEN p.upStatements ELSE p.downStatements

\* up(db) is called.
CallUp ==
  /\ parsed.done /\ ran.status = "idle"
  /\ ran' = [ran EXCEPT !.action = "up", !.status = "running"]
  /\ UNCHANGED <<dir, tableExists, ledger, store, last, sql, parsed>>

\* down(db) is called: there is a down to call only when it is not undefined.
CallDown ==
  /\ parsed.done /\ parsed.down /\ ran.status = "idle"
  /\ ran' = [ran EXCEPT !.action = "down", !.status = "running"]
  /\ UNCHANGED <<dir, tableExists, ledger, store, last, sql, parsed>>

\* One turn of for (const statement of statements): db.raw(statement) is
\* called, or the list is at its end and the action's promise resolves.
LoopTurn(r, statements) ==
  IF r.next > Len(statements)
    THEN [r EXCEPT !.status = "resolved"]
    ELSE [r EXCEPT !.started = Append(@, statements[r.next]),
                   !.pending = TRUE]

Statement ==
  /\ ran.status = "running" /\ ~ran.pending
  /\ ran' = LoopTurn(ran, StatementsOf(parsed, ran.action))
  /\ UNCHANGED <<dir, tableExists, ledger, store, last, sql, parsed>>

\* The awaited call resolves: the loop goes on to the next statement.
RawResolved(r) ==
  [r EXCEPT !.pending = FALSE, !.completed = @ + 1, !.next = @ + 1]

RawResolves ==
  /\ ran.status = "running" /\ ran.pending
  /\ ran' = RawResolved(ran)
  /\ UNCHANGED <<dir, tableExists, ledger, store, last, sql, parsed>>

\* The awaited call rejected and the loop going on to the next statement
\* all the same.
RawRejectedGoesOn(r) == [r EXCEPT !.pending = FALSE, !.next = @ + 1]

\* The awaited call rejects: nothing catches it, the action's promise
\* rejects with it.
RawRejected(r) == [r EXCEPT !.pending = FALSE, !.status = "rejected"]

RawRejects ==
  /\ ran.status = "running" /\ ran.pending
  /\ ran' = RawRejected(ran)
  /\ UNCHANGED <<dir, tableExists, ledger, store, last, sql, parsed>>

NextRun ==
  Parse \/ CallUp \/ CallDown \/ Statement \/ RawResolves \/ RawRejects

SpecRun == InitRun /\ [][NextRun]_vars

\* Texts with directives: section markers, a statement line, the two
\* directives on a line of their own, one of them padded, and one at the end
\* of a statement line.
FlagLines == {UpMarker, DownMarker, "SELECT 1;", NoTxDirective,
              IrreversibleDirective, "  -- +goose IRREVERSIBLE  ",
              "SELECT 1; -- +goose NO TRANSACTION"}

FlagTexts == UNION {[1..n -> FlagLines] : n \in 0..MaxLines}

InitFlags ==
  /\ dir = {}
  /\ tableExists = FALSE
  /\ ledger = <<>>
  /\ store = NoStore
  /\ last = Nothing
  /\ sql \in FlagTexts
  /\ parsed = NoParse
  /\ ran = NoRun

SpecFlags == InitFlags /\ [][NextParse]_vars

\* ==================================================================== claims

\* The number a file's version stands for.
VersionOf(filename) == BigInt(getVersionFromFilename(filename))

\* The versions of the rows of a ledger.
Rows(rows) == {rows[i] : i \in 1..Len(rows)}

\* The elements of a sequence.
Elems(seq) == {seq[i] : i \in 1..Len(seq)}

\* The module a file of the directory loads as.
ModuleOf(filename) == LoadModule(filename)

\* The command just run (the step's last') is of the kind op.
Ran(op) == last'.op = op /\ last'.err # "load"

\* C1. Idempotent apply: once applyPending() with no target has completed
\* successfully, an applyPending() that follows it immediately over the same
\* files executes no up action, inserts no ledger row and reports that
\* nothing is pending.
C1_IdempotentApply ==
  [][ ( /\ last.op = "up" /\ ~last.version.given /\ last.err = "none"
        /\ last'.op = "up" /\ ~last'.version.given /\ dir' = dir )
      => ( /\ last'.ups = <<>>
           /\ last'.inserted = {}
           /\ ledger' = ledger
           /\ last'.out = "No pending migrations" ) ]_vars

\* C2. Irreversible save-point: when the walk of rollbackTo reaches an
\* irreversible definition it stops there: the row of that version stays, its
\* down action is not invoked, no candidate the walk had still before it (the
\* rows of a lower version) loses its row or has its down action invoked, and
\* what was rolled back before it stays rolled back.
C2_IrreversibleSavePoint ==
  [][ (Ran("down") /\ last'.halt # "")
      => ( /\ VersionOf(last'.halt) \in Rows(ledger')
           /\ last'.halt \notin Elems(last'.downs) \cup last'.deleted
           /\ \A v \in Rows(ledger) :
                v <= VersionOf(last'.halt) => v \in Rows(ledger')
           /\ \A f \in Elems(last'.downs) \cup last'.deleted :
                VersionOf(f) > VersionOf(last'.halt)
           /\ \A f \in last'.deleted : VersionOf(f) \notin Rows(ledger')
           /\ last'.err = "none" ) ]_vars

\* C2 witness: a rollback has stopped at an irreversible definition while an
\* older row, whose definition is in the directory and reversible, was among
\* its candidates.
C2_Witness ==
  /\ last.op = "down" /\ last.version.given /\ last.halt # ""
  /\ \E f \in dir :
       /\ ~ModuleOf(f).error /\ ~ModuleOf(f).irreversible
       /\ VersionOf(f) < VersionOf(last.halt)
       /\ VersionOf(f) > last.version.v
       /\ VersionOf(f) \in Rows(ledger)
       /\ DecimalString(VersionOf(f)) = getVersionFromFilename(f)

\* C3. rollbackTo() without a target rolls back the one ledger entry with the
\* greatest sequenceId, the row inserted last, and no other.
C3_RollbackMostRecent ==
  [][ (Ran("down") /\ ~last'.version.given /\ Len(ledger) > 0)
      => \A f \in Elems(last'.downs) \cup last'.deleted :
           VersionOf(f) = ledger[Len(ledger)] ]_vars

\* The text is one explicit block in the Up section: the Up marker, the
\* StatementBegin marker, a body of lines none of which is a marker, and the
\* StatementEnd marker.
OneUpBlock ==
  /\ Len(sql) >= 4
  /\ sql[1] = UpMarker /\ sql[2] = BeginMarker /\ sql[Len(sql)] = EndMarker
  /\ \A i \in 3..(Len(sql) - 1) :
       sql[i] \notin {UpMarker, DownMarker, BeginMarker, EndMarker}

\* C4. An explicit statement block is kept verbatim: the lines between the
\* StatementBegin and StatementEnd markers, blank lines and lines ending in
\* ";" included, come back as exactly one statement of the Up section, and the
\* Down section has none.
C4_ExplicitBlockVerbatim ==
  (parsed.done /\ OneUpBlock)
    => ( /\ parsed.upStatements = <<SubSeq(sql, 3, Len(sql) - 1)>>
         /\ parsed.downStatements = <<>> )

\* The rows a command starts from, once initializeDb has run.
StartRows == Rows(initializeDb(tableExists, ledger))

\* The files that are pending when an apply command starts, as upMigration
\* works them out from the ledger it reads once: no row's version_id equals
\* the file's version, and the version is within the target if one is given.
PendingAtStart(version) ==
  {f \in dir :
     /\ \A v \in StartRows : DecimalString(v) # getVersionFromFilename(f)
     /\ version.given => VersionOf(f) <= version.v}

\* C5. Ordering: applyPending executes the files pending at batch start in
\* ascending numeric version order whatever the order of the listing: the up
\* actions invoked are in ascending order of version, each file at most once,
\* they are files pending at the start, no pending file of a lower version is
\* passed over, and a batch without error has executed them all.
C5_AscendingOrder ==
  [][ Ran("up")
      => ( /\ \A i, j \in 1..Len(last'.ups) :
                i < j => /\ VersionOf(last'.ups[i]) <= VersionOf(last'.ups[j])
                         /\ last'.ups[i] # last'.ups[j]
           /\ Elems(last'.ups) \subseteq PendingAtStart(last'.version)
           /\ \A f \in Elems(last'.ups), g \in PendingAtStart(last'.version) :
                VersionOf(g) < VersionOf(f) => g \in Elems(last'.ups)
           /\ last'.err = "none"
                => Elems(last'.ups) = PendingAtStart(last'.version) ) ]_vars

\* The place of a file in the listing that reads the directory forwards.
ShelfPlace(f) == CHOOSE i \in 1..Len(Shelf) : Shelf[i] = f

\* C5 witness: an applyPending has executed two files of different versions,
\* which one of the listings returns in descending and the other in ascending
\* order of version.
C5_Witness ==
  /\ last.op = "up" /\ last.err = "none" /\ Len(last.ups) = 2
  /\ VersionOf(last.ups[1]) < VersionOf(last.ups[2])
  /\ ShelfPlace(last.ups[1]) > ShelfPlace(last.ups[2])

\* C6. Baseline invariant: once the ledger table exists it holds a row of
\* version 0.
C6_BaselineKept == tableExists => 0 \in Rows(ledger)

\* Two files of the directory resolve to the same version.
DuplicateVersions ==
  \E f, g \in dir : f # g /\ VersionOf(f) = VersionOf(g)

\* C7. Duplicate versions are rejected at load: with two files of the same
\* version in the directory every command fails in the load, before any up or
\* down action and before any ledger write.
C7_DuplicatesRejected ==
  (DuplicateVersions /\ last.op # "none")
    => ( /\ last.err = "load"
         /\ last.ups = <<>> /\ last.downs = <<>>
         /\ last.inserted = {} /\ last.deleted = {} )

\* A text with a StatementBegin marker that no StatementEnd marker follows.
Unterminated ==
  \E i \in 1..Len(sql) :
    /\ sql[i] = BeginMarker
    /\ \A j \in (i + 1)..Len(sql) : sql[j] # EndMarker

\* C8. An unterminated explicit block is a parse error: the parser fails on a
\* text whose StatementBegin marker has no StatementEnd marker after it.
C8_UnterminatedBlockFails ==
  (parsed.done /\ Unterminated) => parsed.error # "none"

\* The files of the directory whose version is, letter for letter, the
\* version_id of the ledger row v: the definitions the walk finds for the row.
DefinitionsOf(v) ==
  {f \in dir : getVersionFromFilename(f) = DecimalString(v)}

\* The rows a rollback started with the version argument is to walk: those
\* above the target, or the row of the greatest version when none is given.
Candidates(version) ==
  IF version.given
    THEN {v \in StartRows : v > version.v}
    ELSE {v \in StartRows : \A w \in StartRows : w <= v}

\* The row v has a definition, and every definition of it has no down action
\* and is not irreversible.
OptionalDown(v) ==
  /\ DefinitionsOf(v) # {}
  /\ \A f \in DefinitionsOf(v) :
       ~ModuleOf(f).down /\ ~ModuleOf(f).irreversible

\* The walk of the command just run has come to the row v: it has neither
\* stopped nor failed at a row it walks before v.
Reached(v) ==
  /\ last'.halt = "" \/ VersionOf(last'.halt) < v
  /\ last'.failed = "" \/ VersionOf(last'.failed) <= v

\* The walk of the command just run has dealt with the row w: skipped it for
\* want of a file, stopped at it, deleted it, or failed at it.
Walked(w) ==
  IF DefinitionsOf(w) = {}
    THEN DecimalString(w) \in Elems(last'.skipped)
    ELSE \E g \in DefinitionsOf(w) :
           g = last'.halt \/ g \in last'.deleted \/ g = last'.failed

\* C9. Optional down is not irreversible: a candidate of a rollback walk whose
\* definition has no down action and is not irreversible has no down action
\* invoked and its ledger row deleted (unless the database refuses that very
\* delete), and the walk goes on to the next candidate.
C9_OptionalDownRemovable ==
  [][ Ran("down")
      => \A v \in Candidates(last'.version) :
           (OptionalDown(v) /\ Reached(v))
             => ( /\ DefinitionsOf(v) \cap Elems(last'.downs) = {}
                  /\ \/ /\ v \notin Rows(ledger')
                        /\ DefinitionsOf(v) \cap last'.deleted # {}
                     \/ /\ v \in Rows(ledger')
                        /\ last'.err = "delete"
                        /\ last'.failed \in DefinitionsOf(v)
                  /\ v \notin Rows(ledger')
                       => \A w \in Candidates(last'.version) :
                            ( /\ w < v
                              /\ ~\E x \in Candidates(last'.version) :
                                    w < x /\ x < v )
                              => Walked(w) ) ]_vars

\* C9 witness: a rollback has deleted the row of a definition without a down
\* action and then gone on to an older candidate, which it rolled back or
\* stopped at.
C9_Witness ==
  /\ last.op = "down"
  /\ \E f \in last.deleted :
       /\ ~ModuleOf(f).down
       /\ f \notin Elems(last.downs)
       /\ \E g \in (last.deleted \cup {last.halt}) \ {""} :
            VersionOf(g) < VersionOf(f)

\* C10. Transactional apply is atomic: when an apply command has run the up
\* action of a file that is not noTransaction, either the action's effects and
\* the file's ledger row are both committed, or the apply failed at that file
\* and neither is: the store is as it was and the file has inserted no row.
\* The rows the command has added are those of the files whose insert stands.
C10_TransactionalApplyAtomic ==
  [][ (Ran("up") \/ Ran("up-by-one"))
      => ( /\ StartRows \subseteq Rows(ledger')
           /\ Rows(ledger') \ StartRows
                = {VersionOf(g) : g \in last'.inserted}
           /\ \A f \in Elems(last'.ups) :
                ~ModuleOf(f).noTransaction
                  => \/ /\ f \in last'.inserted
                        /\ last'.failed # f
                        /\ store'[f] = "done"
                        /\ VersionOf(f) \in Rows(ledger')
                     \/ /\ f \notin last'.inserted
                        /\ last'.failed = f
                        /\ store'[f] = store[f] ) ]_vars

\* C10 witness: an apply command has committed one transactional file and
\* failed at the next, also transactional, whose up action had not run before.
C10_Witness ==
  /\ last.op = "up" /\ last.err # "none" /\ Len(last.ups) = 2
  /\ VersionOf(last.ups[1]) < VersionOf(last.ups[2])
  /\ ~ModuleOf(last.ups[1]).noTransaction
  /\ ~ModuleOf(last.ups[2]).noTransaction
  /\ last.ups[1] \in last.inserted
  /\ last.failed = last.ups[2]
  /\ store[last.ups[1]] = "done"
  /\ store[last.ups[2]] = "none"

\* The command just run is an apply command: up, up-to or up-by-one.
RanApply == Ran("up") \/ Ran("up-by-one")

\* C11. Non-transactional failure leaves no ledger row: for a file with
\* noTransaction the row is inserted only after its up action has returned:
\* a file whose insert stands has its up action done, and when the up action
\* throws, the store is left changed in part, the file has inserted no row (a
\* row of its version is there only if another file of that version inserted
\* it) and the command ends with the error.
C11_NoTxFailureLeavesNoRow ==
  [][ RanApply
      => \A f \in Elems(last'.ups) :
           ModuleOf(f).noTransaction
             => ( /\ f \in last'.inserted
                       => store'[f] = "done" /\ last'.failed # f
                  /\ f \notin last'.inserted
                       => last'.failed = f /\ last'.err \in {"up", "insert"}
                  /\ (last'.failed = f /\ last'.err = "up")
                       => ( /\ f \notin last'.inserted
                            /\ store'[f] = "partial"
                            /\ VersionOf(f) \in Rows(ledger')
                                 => \E g \in last'.inserted \ {f} :
                                      VersionOf(g) = VersionOf(f) ) ) ]_vars

\* C11 witness: the up action of a noTransaction file has thrown after
\* changing the store in part, and the ledger has no row of its version.
C11_Witness ==
  /\ last.op \in {"up", "up-by-one"} /\ last.err = "up"
  /\ \E f \in dir :
       /\ last.failed = f
       /\ ModuleOf(f).noTransaction
       /\ store[f] = "partial"
       /\ VersionOf(f) \notin Rows(ledger)

\* The file is pending against the rows: no row's version_id is its version.
PendingAgainst(f, rows) ==
  \A v \in rows : DecimalString(v) # getVersionFromFilename(f)

\* C12. Bounded apply: applyPending with a target version executes the pending
\* files whose version, as an integer, is at most the target, in ascending
\* order, all of them unless one fails, and none above the target: a pending
\* file above the target has no up action invoked, is left as it was in the
\* store and is still pending afterwards.
C12_BoundedApply ==
  [][ (Ran("up") /\ last'.version.given)
      => ( /\ \A f \in Elems(last'.ups) : VersionOf(f) <= last'.version.v
           /\ \A i, j \in 1..Len(last'.ups) :
                i < j => VersionOf(last'.ups[i]) <= VersionOf(last'.ups[j])
           /\ last'.err = "none"
                => Elems(last'.ups)
                     = {f \in dir : /\ PendingAgainst(f, StartRows)
                                    /\ VersionOf(f) <= last'.version.v}
           /\ \A g \in dir :
                (PendingAgainst(g, StartRows) /\ VersionOf(g) > last'.version.v)
                  => ( /\ g \notin Elems(last'.ups)
                       /\ g \notin last'.inserted
                       /\ store'[g] = store[g]
                       /\ PendingAgainst(g, Rows(ledger')) ) ) ]_vars

\* C12 witness: an up-to has applied a pending file within its target and
\* left a pending file above the target pending.
C12_Witness ==
  /\ last.op = "up" /\ last.version.given /\ last.err = "none"
  /\ last.inserted # {}
  /\ \E g \in dir :
       /\ VersionOf(g) > last.version.v
       /\ ~ModuleOf(g).error
       /\ PendingAgainst(g, Rows(ledger))
       /\ store[g] = "none"

\* The files of the directory that are pending when a command starts.
PendingFiles == {f \in dir : PendingAgainst(f, StartRows)}

\* C13. Single-step apply: applyOne invokes at most one up action; when files
\* are pending it is that of a pending file of the lowest version and every
\* other pending file is left as it was; when none is pending nothing is
\* executed, nothing is written and no error is raised.
C13_SingleStepApply ==
  [][ Ran("up-by-one")
      => ( /\ Len(last'.ups) <= 1
           /\ PendingFiles = {}
                => ( /\ last'.ups = <<>>
                     /\ last'.err = "none"
                     /\ last'.out = "No pending migrations"
                     /\ Rows(ledger') = StartRows
                     /\ store' = store )
           /\ PendingFiles # {}
                => ( /\ Len(last'.ups) = 1
                     /\ last'.ups[1] \in PendingFiles
                     /\ \A g \in PendingFiles :
                          VersionOf(last'.ups[1]) <= VersionOf(g)
                     /\ \A g \in PendingFiles \ {last'.ups[1]} :
                          /\ g \notin last'.inserted
                          /\ store'[g] = store[g] ) ) ]_vars

\* C13 witness: an applyOne has applied the pending file of the lowest version
\* and left a pending file of a higher version pending.
C13_Witness ==
  /\ last.op = "up-by-one" /\ last.err = "none" /\ Len(last.ups) = 1
  /\ last.ups[1] \in last.inserted
  /\ \E g \in dir :
       /\ VersionOf(g) > VersionOf(last.ups[1])
       /\ ~ModuleOf(g).error
       /\ PendingAgainst(g, Rows(ledger))
       /\ store[g] = "none"

\* C14. A version is applied at most once: no two ledger rows have the same
\* version, and an apply command starts no up action for a version whose row
\* is in the ledger, be it a row the command found or one it has inserted.
C14_AppliedAtMostOnce ==
  [][ /\ \A i, j \in 1..Len(ledger') : i # j => ledger'[i] # ledger'[j]
      /\ RanApply
           => \A i \in 1..Len(last'.ups) :
                /\ VersionOf(last'.ups[i]) \notin StartRows
                /\ \A j \in 1..(i - 1) :
                     last'.ups[j] \in last'.inserted
                       => VersionOf(last'.ups[j]) # VersionOf(last'.ups[i])
    ]_vars

\* The number of rows of version 0.
BaselineRows(rows) == Cardinality({i \in 1..Len(rows) : rows[i] = 0})

\* C15. ensureBaseline is idempotent and total: after the initialisation of
\* the ledger (seen at a status command, which does nothing else to it) the
\* table exists and holds exactly one row of version 0, whatever was there
\* before, and initialising again changes nothing.
C15_EnsureBaseline ==
  [][ last'.op = "status"
      => ( /\ tableExists'
           /\ BaselineRows(ledger') = 1
           /\ initializeDb(tableExists', ledger') = ledger' ) ]_vars

\* C16. status is read-only: the ledger after it is the ledger initialisation
\* left, the store is untouched, no up or down action is invoked, and the
\* report has one line for each migration file, in ascending order of
\* version, that says Applied exactly when the file's version is in the ledger.
C16_StatusReadOnly ==
  [][ Ran("status")
      => ( /\ ledger' = initializeDb(tableExists, ledger)
           /\ store' = store
           /\ last'.ups = <<>> /\ last'.downs = <<>>
           /\ last'.inserted = {} /\ last'.deleted = {}
           /\ {last'.status[i].filename : i \in 1..Len(last'.status)}
                = {f \in dir : Eligible(f)}
           /\ Len(last'.status) = Cardinality({f \in dir : Eligible(f)})
           /\ \A i, j \in 1..Len(last'.status) :
                i < j => VersionOf(last'.status[i].filename)
                           <= VersionOf(last'.status[j].filename)
           /\ \A i \in 1..Len(last'.status) :
                last'.status[i].status = "Applied"
                  <=> VersionOf(last'.status[i].filename) \in Rows(ledger') )
    ]_vars

\* The rows above the target, most recently inserted first: the candidates
\* of a rollback in descending order of id.
NewestFirst(rows, version) ==
  Reverse(SelectSeq(rows, LAMBDA v : v > version.v))

\* C17. rollbackTo with a target walks its candidates in descending order of
\* sequenceId, the reverse of the order they were applied in: the rows the
\* walk has come to, in the order it came to them, are the first of the
\* candidates taken most recently inserted first.
C17_WalkNewestFirst ==
  [][ (Ran("down") /\ last'.version.given)
      => ( /\ Len(last'.walk)
                <= Len(NewestFirst(initializeDb(tableExists, ledger),
                                   last'.version))
           /\ \A i \in 1..Len(last'.walk) :
                last'.walk[i]
                  = DecimalString(
                      NewestFirst(initializeDb(tableExists, ledger),
                                  last'.version)[i]) ) ]_vars

\* C18. Fail-fast apply: when an applyPending ends with an error, the error
\* is that of the last migration it attempted, an up action or an insert that
\* threw; the migrations attempted before it are applied, rows and effects;
\* the failing one has inserted no row; and no pending migration after it is
\* attempted: it keeps its store and inserts no row.
C18_FailFastApply ==
  [][ (Ran("up") /\ last'.err # "none")
      => ( /\ Len(last'.ups) >= 1
           /\ last'.err \in {"up", "insert"}
           /\ last'.failed = last'.ups[Len(last'.ups)]
           /\ last'.failed \notin last'.inserted
           /\ \A i \in 1..(Len(last'.ups) - 1) :
                /\ last'.ups[i] \in last'.inserted
                /\ last'.ups[i] # last'.failed
                /\ VersionOf(last'.ups[i]) \in Rows(ledger')
                /\ store'[last'.ups[i]] = "done"
           /\ Rows(ledger')
                = StartRows \cup {VersionOf(g) : g \in last'.inserted}
           /\ \A g \in PendingAtStart(last'.version) \ Elems(last'.ups) :
                /\ VersionOf(g) >= VersionOf(last'.failed)
                /\ g \notin last'.inserted
                /\ store'[g] = store[g] ) ]_vars

\* C18 witness: an applyPending has failed at the first of two pending
\* migrations and the second, of a higher version, was not attempted.
C18_Witness ==
  /\ last.op = "up" /\ last.err \in {"up", "insert"} /\ Len(last.ups) = 1
  /\ last.failed = last.ups[1]
  /\ VersionOf(last.failed) \notin Rows(ledger)
  /\ \E g \in dir :
       /\ VersionOf(g) > VersionOf(last.failed)
       /\ ~last.version.given
       /\ ~ModuleOf(g).error
       /\ PendingAgainst(g, Rows(ledger))
       /\ store[g] = "none"

\* C19. Fail-fast rollback: when the down action of a candidate throws, with
\* or without a transaction, the candidate's row is still in the ledger, the
\* walk has come to no candidate after it, the candidates rolled back before
\* it stay removed and nothing else is, and the command ends with the error.
C19_FailFastRollback ==
  [][ (Ran("down") /\ last'.err = "down")
      => ( /\ Len(last'.downs) >= 1 /\ Len(last'.walk) >= 1
           /\ last'.failed = last'.downs[Len(last'.downs)]
           /\ last'.walk[Len(last'.walk)]
                = getVersionFromFilename(last'.failed)
           /\ VersionOf(last'.failed) \in Rows(ledger')
           /\ last'.failed \notin last'.deleted
           /\ last'.halt = ""
           /\ \A f \in last'.deleted : VersionOf(f) \notin Rows(ledger')
           /\ Rows(ledger')
                = StartRows \ {VersionOf(f) : f \in last'.deleted}
           /\ store'[last'.failed]
                = IF ModuleOf(last'.failed).noTransaction
                    THEN "partial" ELSE store[last'.failed] ) ]_vars

\* C19 witness: a rollback has removed one candidate and then failed in the
\* down action of the next, a noTransaction migration, whose row is still
\* there.
C19_Witness ==
  /\ last.op = "down" /\ last.err = "down"
  /\ \E f \in dir :
       /\ last.failed = f
       /\ ModuleOf(f).noTransaction
       /\ VersionOf(f) \in Rows(ledger)
       /\ \E g \in last.deleted :
            VersionOf(g) > VersionOf(f) /\ VersionOf(g) \notin Rows(ledger)

\* The files of the directory whose version is the version_id id.
FilesOf(id) == {f \in dir : getVersionFromFilename(f) = id}

\* C20. A missing definition is skipped: a candidate row the walk comes to
\* whose version matches no migration file is logged as skipped and stays in
\* the ledger, no down action is invoked and no row deleted for it, and it
\* neither ends the walk nor raises an error: if it is the last row the walk
\* came to, the candidates are exhausted and the command ends without error.
\* Only such rows are skipped.
C20_MissingDefinitionSkipped ==
  [][ Ran("down")
      => ( /\ \A i \in 1..Len(last'.walk) :
                FilesOf(last'.walk[i]) = {}
                  => ( /\ last'.walk[i] \in Elems(last'.skipped)
                       /\ BigInt(last'.walk[i]) \in Rows(ledger')
                       /\ \A f \in Elems(last'.downs) \cup last'.deleted :
                            VersionOf(f) # BigInt(last'.walk[i])
                       /\ i = Len(last'.walk)
                            => ( /\ last'.err = "none"
                                 /\ last'.halt = ""
                                 /\ i = Cardinality(
                                          Candidates(last'.version)) ) )
           /\ \A i \in 1..Len(last'.skipped) :
                /\ FilesOf(last'.skipped[i]) = {}
                /\ last'.skipped[i] \in Elems(last'.walk) ) ]_vars

\* C20 witness: a rollback has skipped a row without a migration file, left
\* it in the ledger, and gone on to roll back an older candidate.
C20_Witness ==
  /\ last.op = "down" /\ last.err = "none" /\ Len(last.walk) >= 2
  /\ FilesOf(last.walk[1]) = {}
  /\ last.walk[1] \in Elems(last.skipped)
  /\ BigInt(last.walk[1]) \in Rows(ledger)
  /\ \E f \in last.deleted :
       /\ getVersionFromFilename(f) = last.walk[2]
       /\ VersionOf(f) \notin Rows(ledger)

\* C21. rollbackTo(targetVersion) touches only versions above the target: it
\* invokes the down action of no version at or below the target and every
\* ledger row at or below the target is still there afterwards; and when the
\* walk ends without error, without meeting an irreversible migration and
\* without a candidate whose migration file was not found, no ledger row
\* above the target remains.
C21_RollbackAboveTarget ==
  [][ (Ran("down") /\ last'.version.given)
      => ( /\ \A f \in Elems(last'.downs) \cup last'.deleted :
                VersionOf(f) > last'.version.v
           /\ \A v \in StartRows :
                v <= last'.version.v => v \in Rows(ledger')
           /\ \A i \in 1..Len(last'.walk) :
                BigInt(last'.walk[i]) > last'.version.v
           /\ ( last'.err = "none" /\ last'.halt = ""
                /\ last'.skipped = <<>> )
                => \A v \in Rows(ledger') : v <= last'.version.v ) ]_vars

\* C21 witness: a rollbackTo has ended without error, halt or skip, has
\* removed a row above its target and has left the row of a migration at or
\* below the target, which is not the baseline, in the ledger.
C21_Witness ==
  /\ last.op = "down" /\ last.version.given /\ last.err = "none"
  /\ last.halt = "" /\ last.skipped = <<>>
  /\ \E f \in last.deleted :
       VersionOf(f) > last.version.v /\ VersionOf(f) \notin Rows(ledger)
  /\ \E g \in dir :
       /\ VersionOf(g) > 0 /\ VersionOf(g) <= last.version.v
       /\ VersionOf(g) \in Rows(ledger)

\* The eligible files of the directory that fail to load.
FailToLoad == {f \in dir : Eligible(f) /\ ModuleOf(f).error}

C23_MatchByIntegerValue ==
  [][ /\ Ran("status")
           => \A i \in 1..Len(last'.status) :
                VersionOf(last'.status[i].filename) \in Rows(ledger')
                  => last'.status[i].status = "Applied"
      /\ RanApply
           => \A f \in Elems(last'.ups) : VersionOf(f) \notin StartRows
    ]_vars

\* The lines of the texts by what they are once the white space around them
\* is taken off: an Up marker, a Down marker, blank or a comment, ending
\* with ";".
IsUpMarker(line) == line \in {"-- +goose Up", "  -- +goose Up  "}

IsDownMarker(line) == line = "-- +goose Down"

BlankOrComment(line) ==
  line \in {"", "-- note", "-- +goose Up", "  -- +goose Up  ",
            "-- +goose Down", "-- +goose StatementBegin",
            "-- +goose StatementEnd", "-- +goose NO TRANSACTION",
            "-- +goose IRREVERSIBLE", "  -- +goose IRREVERSIBLE  "}

EndsStatement(line) == line \in {"SELECT 1;", "SELECT 2;", "  SELECT 1;  "}

\* The section in force at line i of the text: that of the last section
\* marker above the line, "none" when there is none.
SectionAt(text, i) ==
  LET above == {j \in 1..(i - 1) : IsUpMarker(text[j]) \/ IsDownMarker(text[j])}
  IN IF above = {} THEN "none"
     ELSE LET m == CHOOSE j \in above : \A k \in above : k <= j
          IN IF IsUpMarker(text[m]) THEN "up" ELSE "down"

\* The lines of the text that stand in an up or down section and are neither
\* blank nor a comment, and those of them that end a statement.
BareAt(text) ==
  {i \in 1..Len(text) :
     SectionAt(text, i) # "none" /\ ~BlankOrComment(text[i])}

TerminatorsAt(text) ==
  {i \in BareAt(text) : EndsStatement(text[i])}

\* The lines of the set of indexes at, in the order of the text.
RECURSIVE LinesAt(_, _)
LinesAt(text, at) ==
  IF at = {} THEN <<>>
  ELSE LET i == CHOOSE j \in at : \A k \in at : j <= k
       IN <<text[i]>> \o LinesAt(text, at \ {i})

\* The statement that the terminating line t ends: the bare lines after the
\* terminating line before it, up to t.
StatementEndingAt(text, t) ==
  LinesAt(text, {i \in BareAt(text) :
                   /\ i <= t
                   /\ \A u \in TerminatorsAt(text) : u < t => u < i})

\* The statements ended by the terminating lines at, in the order of the
\* text.
RECURSIVE StatementsEndingAt(_, _)
StatementsEndingAt(text, at) ==
  IF at = {} THEN <<>>
  ELSE LET t == CHOOSE j \in at : \A k \in at : j <= k
       IN <<StatementEndingAt(text, t)>> \o StatementsEndingAt(text, at \ {t})

\* The statements of a section: those whose terminating line stands in it.
BareStatements(text, section) ==
  StatementsEndingAt(text, {t \in TerminatorsAt(text) :
                              SectionAt(text, t) = section})

\* C24. Bare statement splitting: in a text without explicit blocks, no blank
\* or comment-only line is in any statement; every other line of an up or
\* down section is accumulated, and each line whose trimmed text ends with
\* ";" emits the lines accumulated since the terminating line before it as
\* one statement, at the end of the list of the section the line stands in;
\* the statements of a list are in the order of their terminating lines.
C24_BareSplitting ==
  parsed.done
    => ( /\ parsed.upStatements = BareStatements(sql, "up")
         /\ parsed.downStatements = BareStatements(sql, "down")
         /\ \A s \in Elems(parsed.upStatements)
                       \cup Elems(parsed.downStatements) :
              \A i \in 1..Len(s) : ~BlankOrComment(s[i]) )

\* C24 witness: an up section has given two statements in the order of their
\* terminating lines, the first of two lines, with a comment or blank line
\* of the section in neither.
C24_Witness ==
  /\ parsed.done
  /\ Len(parsed.upStatements) = 2
  /\ Len(parsed.upStatements[1]) = 2
  /\ parsed.upStatements[1] # parsed.upStatements[2]
  /\ \E i \in 2..Len(sql) :
       /\ BlankOrComment(sql[i]) /\ SectionAt(sql, i) = "up"
       /\ ~IsUpMarker(sql[i]) /\ ~IsDownMarker(sql[i])

\* The lines of the text that are section markers, and the place of the
\* first of them: one past the end of the text when there is none.
MarkersAt(text) ==
  {i \in 1..Len(text) : IsUpMarker(text[i]) \/ IsDownMarker(text[i])}

FirstMarker(text) ==
  IF MarkersAt(text) = {} THEN Len(text) + 1
  ELSE CHOOSE i \in MarkersAt(text) : \A j \in MarkersAt(text) : i <= j

\* The statements of both lists.
AllStatements(p) == Elems(p.upStatements) \cup Elems(p.downStatements)

\* C25. Section none collects nothing and raises nothing: the parse does not
\* fail; the lines before the first Up or Down marker, bare or in an explicit
\* block, add nothing to either list, which are those of the text from its
\* first marker on; a text without an Up marker has no up statement and one
\* without a Down marker no down statement; and no marker line is part of a
\* statement.
C25_SectionNoneCollectsNothing ==
  parsed.done
    => ( /\ parsed.error = "none"
         /\ LET rest == parseSqlMigration(
                          SubSeq(sql, FirstMarker(sql), Len(sql)))
            IN /\ parsed.upStatements = rest.upStatements
               /\ parsed.downStatements = rest.downStatements
         /\ (\A i \in 1..Len(sql) : ~IsUpMarker(sql[i]))
              => parsed.upStatements = <<>>
         /\ (\A i \in 1..Len(sql) : ~IsDownMarker(sql[i]))
              => parsed.downStatements = <<>>
         /\ \A s \in AllStatements(parsed) : \A i \in 1..Len(s) :
              ~IsUpMarker(s[i]) /\ ~IsDownMarker(s[i]) )

\* C25 witness: a text whose first marker comes after an explicit block with
\* a statement line in it has been parsed without error, and its one
\* statement is the line after the marker.
C25_Witness ==
  /\ parsed.done /\ parsed.error = "none"
  /\ Len(sql) = 5 /\ FirstMarker(sql) = 4
  /\ sql[1] = BeginMarker /\ sql[2] = "SELECT 1;" /\ sql[3] = EndMarker
  /\ sql[5] = "SELECT 2;"
  /\ AllStatements(parsed) = {<<"SELECT 2;">>}

\* The lines of the texts in which the text of a directive occurs, and those
\* that are a directive once the white space around them is taken off.
HasNoTransaction(line) ==
  line \in {"-- +goose NO TRANSACTION", "SELECT 1; -- +goose NO TRANSACTION"}

HasIrreversible(line) ==
  line \in {"-- +goose IRREVERSIBLE", "  -- +goose IRREVERSIBLE  "}

IsDirective(line) ==
  line \in {"-- +goose NO TRANSACTION", "-- +goose IRREVERSIBLE",
            "  -- +goose IRREVERSIBLE  "}

\* C26. The directive flags are independent of the parser's state:
\* noTransaction (irreversible) is true exactly when the text of the NO
\* TRANSACTION (IRREVERSIBLE) directive occurs somewhere in the input, in
\* whatever section and before or after any marker; and a directive line
\* adds nothing to the statements: it is in none of them, and the lists are
\* those of the text without its directive lines.
C26_DirectiveFlags ==
  parsed.done
    => ( /\ parsed.noTransaction
              <=> \E i \in 1..Len(sql) : HasNoTransaction(sql[i])
         /\ parsed.irreversible
              <=> \E i \in 1..Len(sql) : HasIrreversible(sql[i])
         /\ \A s \in AllStatements(parsed) : \A i \in 1..Len(s) :
              ~IsDirective(s[i])
         /\ LET plain == parseSqlMigration(
                           SelectSeq(sql, LAMBDA l : ~IsDirective(l)))
            IN /\ parsed.upStatements = plain.upStatements
               /\ parsed.downStatements = plain.downStatements )

\* C26 witness: both flags are set by directives that stand after the
\* statement of a down section, and the statement is all the lists hold.
C26_Witness ==
  /\ parsed.done /\ parsed.noTransaction /\ parsed.irreversible
  /\ Len(sql) = 4
  /\ sql[1] = DownMarker /\ sql[2] = "SELECT 1;"
  /\ sql[3] = NoTxDirective /\ HasIrreversible(sql[4])
  /\ parsed.downStatements = <<<<"SELECT 1;">>>>
  /\ parsed.upStatements = <<>>

\* C27. Sequential statement execution: the up (down) action of a parsed
\* migration hands its statements to db.raw one at a time in list order, and
\* starts a statement only when the one before it has completed; when a
\* statement fails the action rejects with none of the later statements
\* started, and nothing is started afterwards; when the action resolves every
\* statement has completed. A parse with an empty down list gives a migration
\* without a down action.
C27_SequentialStatements ==
  [][ /\ ran'.action # "none"
           => ( /\ Len(ran'.started) <= Len(StatementsOf(parsed', ran'.action))
                /\ ran'.started
                     = SubSeq(StatementsOf(parsed', ran'.action), 1, Len(ran'.started))
                /\ ran'.completed
                     = IF ran'.pending \/ ran'.status = "rejected"
                         THEN Len(ran'.started) - 1 ELSE Len(ran'.started)
                /\ ran'.status = "resolved"
                     => ran'.completed = Len(StatementsOf(parsed', ran'.action)) )
      /\ ran.status = "rejected" => ran' = ran
      /\ (parsed'.done /\ parsed'.downStatements = <<>>)
           => (~parsed'.down /\ ran'.action # "down")
    ]_vars

\* C27 witness: the down action has failed in the second of three statements
\* with the first completed and the third not started.
C27_Witness ==
  /\ ran.action = "down" /\ ran.status = "rejected"
  /\ Len(parsed.downStatements) = 3
  /\ parsed.downStatements[1] # parsed.downStatements[2]
  /\ ran.started = SubSeq(parsed.downStatements, 1, 2)
  /\ ran.completed = 1

\* The statement that the terminating line t ends when it is built from the
\* lines of t's own section only, and the statements of a section so built.
OwnStatementEndingAt(text, t) ==
  LinesAt(text, {i \in BareAt(text) :
                   /\ i <= t
                   /\ \A u \in TerminatorsAt(text) : u < t => u < i
                   /\ SectionAt(text, i) = SectionAt(text, t)})

RECURSIVE OwnStatementsEndingAt(_, _)
OwnStatementsEndingAt(text, at) ==
  IF at = {} THEN <<>>
  ELSE LET t == CHOOSE j \in at : \A k \in at : j <= k
       IN <<OwnStatementEndingAt(text, t)>>
          \o OwnStatementsEndingAt(text, at \ {t})

OwnStatements(text, section) ==
  OwnStatementsEndingAt(text, {t \in TerminatorsAt(text) :
                                 SectionAt(text, t) = section})

\* C28. Sections are isolated: every statement of upStatements is built only
\* from lines of an Up section and every statement of downStatements only
\* from lines of a Down section; lines accumulated in one section without a
\* terminating ";" are in no statement of the section that follows the next
\* marker.
C28_SectionsIsolated ==
  parsed.done
    => ( /\ parsed.upStatements = OwnStatements(sql, "up")
         /\ parsed.downStatements = OwnStatements(sql, "down") )

\* The place of the last line of the text that ends a statement, 0 when
\* there is none.
LastTerminator(text) ==
  IF TerminatorsAt(text) = {} THEN 0
  ELSE CHOOSE t \in TerminatorsAt(text) : \A u \in TerminatorsAt(text) : u <= t

\* C29. Unterminated trailing text is dropped silently: the bare lines after
\* the last line that ends with ";" are added to neither list, which are
\* those of the text cut after that line, and the parse returns without
\* error; so every statement emitted ends with a line whose trimmed text ends
\* with ";".
C29_TrailingTextDropped ==
  parsed.done
    => ( /\ parsed.error = "none"
         /\ LET cut == parseSqlMigration(SubSeq(sql, 1, LastTerminator(sql)))
            IN /\ parsed.upStatements = cut.upStatements
               /\ parsed.downStatements = cut.downStatements
         /\ \A s \in AllStatements(parsed) :
              Len(s) >= 1 /\ EndsStatement(s[Len(s)]) )

\* C29 witness: a text that ends with a bare line without ";" after a
\* terminated statement of its up section has been parsed without error and
\* the terminated statement is all that is returned.
C29_Witness ==
  /\ parsed.done /\ parsed.error = "none"
  /\ sql = <<UpMarker, "SELECT 1;", "SELECT 3">>
  /\ parsed.upStatements = <<<<"SELECT 1;">>>>
  /\ parsed.downStatements = <<>>

====
